---- MODULE Spec2Model ----
(***************************************************************************)
(* HierBasis: the hierarchical proximal operator (GetProx, GetProxOne),    *)
(* the single-predictor solver (solveHierBasis) and the block coordinate   *)
(* descent driver (FitAdditive) of src/src/helper_functions.cpp.           *)
(*                                                                         *)
(* Numbers.  A C++ double is modelled as a fixed-point number: the integer *)
(* d stands for the real d / Unit, and every operation rounds toward zero  *)
(* to the next multiple of 1 / Unit, as floating point rounds to the next  *)
(* representable value.  The three IEEE special values that the code can   *)
(* produce (0/0, w/0, 1 - w/0) are the values NaN, PInf and NInf, with the *)
(* IEEE rules for them.  Vectors are sequences indexed from 1: index k of  *)
(* the model is index k-1 of the code.                                     *)
(***************************************************************************)
EXTENDS Integers, Sequences, FiniteSets, TLC

VARIABLES gp, hb, fa

vars == <<gp, hb, fa>>

(***************************************************************************)
(* Bounds of the model.                                                    *)
(***************************************************************************)
\* resolution of the fixed-point model of double: 1 / Unit is the smallest step
Unit == 4
\* J: length of a coefficient vector (number of basis functions)
MaxJ == 3
\* nlam: number of lambda values (columns of the weight matrix)
MaxNlam == 2

(***************************************************************************)
(* double arithmetic                                                       *)
(***************************************************************************)
NaN == 9000000
PInf == 8000000
NInf == -8000000

IsFinite(a) == a # NaN /\ a # PInf /\ a # NInf

Abs(a) == IF a < 0 THEN -a ELSE a

Sgn(a) == IF a > 0 THEN 1 ELSE IF a < 0 THEN -1 ELSE 0

\* integer quotient rounded toward zero
TDiv(a, b) == Sgn(a) * Sgn(b) * (Abs(a) \div Abs(b))

\* the largest r in lo..hi with r * r <= x, by bisection
RECURSIVE SqrtBetween(_, _, _)
SqrtBetween(x, lo, hi) ==
    IF lo = hi THEN lo
    ELSE LET mid == (lo + hi + 1) \div 2
         IN  IF mid * mid <= x THEN SqrtBetween(x, mid, hi)
             ELSE SqrtBetween(x, lo, mid - 1)

\* largest r with r * r <= x
ISqrt(x) == SqrtBetween(x, 0, IF x < 40000 THEN x ELSE 40000)

\* conversion int -> double
FromInt(k) == k * Unit

\* a > b on doubles: false as soon as one side is NaN
FGt(a, b) == a # NaN /\ b # NaN /\ a > b

\* a < b on doubles
FLt(a, b) == FGt(b, a)

\* a == b on doubles
FEq(a, b) == a # NaN /\ b # NaN /\ a = b

FNeg(a) == IF a = NaN THEN NaN ELSE -a

FAbs(a) == IF a = NaN THEN NaN ELSE Abs(a)

FAdd(a, b) ==
    IF a = NaN \/ b = NaN THEN NaN
    ELSE IF ~IsFinite(a) THEN (IF ~IsFinite(b) /\ b # a THEN NaN ELSE a)
    ELSE IF ~IsFinite(b) THEN b
    ELSE a + b

FSub(a, b) == FAdd(a, FNeg(b))

FMul(a, b) ==
    IF a = NaN \/ b = NaN THEN NaN
    ELSE IF ~IsFinite(a) \/ ~IsFinite(b)
         THEN (IF a = 0 \/ b = 0 THEN NaN
               ELSE IF Sgn(a) * Sgn(b) > 0 THEN PInf ELSE NInf)
    ELSE TDiv(a * b, Unit)

FDiv(a, b) ==
    IF a = NaN \/ b = NaN THEN NaN
    ELSE IF ~IsFinite(a)
         THEN (IF ~IsFinite(b) THEN NaN
               ELSE IF Sgn(a) * (IF b < 0 THEN -1 ELSE 1) > 0 THEN PInf ELSE NInf)
    ELSE IF ~IsFinite(b) THEN 0
    ELSE IF b = 0
         THEN (IF a = 0 THEN NaN ELSE IF a > 0 THEN PInf ELSE NInf)
    ELSE TDiv(a * Unit, b)

(***************************************************************************)
(* vectors                                                                 *)
(***************************************************************************)
RECURSIVE SumSq(_, _)
SumSq(v, k) == IF k = 0 THEN 0 ELSE SumSq(v, k - 1) + v[k] * v[k]

\* arma::norm(v): the 2-norm
Norm(v) ==
    IF \E k \in 1..Len(v) : v[k] = NaN THEN NaN
    ELSE IF \E k \in 1..Len(v) : ~IsFinite(v[k]) THEN PInf
    ELSE ISqrt(SumSq(v, Len(v)))

\* v.subvec(j, p - 1) of the code, for the model's index j
SubVec(v, j) == [k \in 1..(Len(v) - j + 1) |-> v[j + k - 1]]

Zeros(len) == [k \in 1..len |-> 0]

AllFinite(v) == \A k \in 1..Len(v) : IsFinite(v[k])

(***************************************************************************)
(* cpp_max: arma::max over the two-element vector (x, y).  Armadillo scans *)
(* the elements, starting from the most negative double, and keeps an      *)
(* element only when it compares greater: a NaN never does.                *)
(***************************************************************************)
\* the comparison written the std::max way: a NaN first argument comes back
cpp_max_nan(x, y) == IF FLt(x, y) THEN y ELSE x

cpp_max(x, y) ==
    LET m1 == IF FGt(x, NInf) THEN x ELSE NInf
    IN  IF FGt(y, m1) THEN y ELSE m1

(***************************************************************************)
(* The body of the backward loop of GetProx and GetProxOne.                *)
(***************************************************************************)
\* the scaling factor at index j
ScaleFactor(beta, weights, j) ==
    cpp_max(FSub(FromInt(1), FDiv(weights[j], Norm(SubVec(beta, j)))), 0)

\* a loop body that shrinks beta[j] alone instead of the suffix
ShrinkStepOne(beta, weights, j) ==
    [k \in 1..Len(beta) |->
        IF k = j THEN FMul(ScaleFactor(beta, weights, j), beta[k]) ELSE beta[k]]

\* a loop body that clamps nothing: the factor 1 - w / norm is used as it is
ShrinkStepRaw(beta, weights, j) ==
    [k \in 1..Len(beta) |->
        IF k >= j
        THEN FMul(FSub(FromInt(1), FDiv(weights[j], Norm(SubVec(beta, j)))), beta[k])
        ELSE beta[k]]

ShrinkStep(beta, weights, j) ==
    [k \in 1..Len(beta) |->
        IF k >= j THEN FMul(ScaleFactor(beta, weights, j), beta[k]) ELSE beta[k]]

RECURSIVE ProxLoop(_, _, _)
ProxLoop(beta, weights, j) ==
    IF j = 0 THEN beta ELSE ProxLoop(ShrinkStep(beta, weights, j), weights, j - 1)

GetProxOne(y, weights) == ProxLoop(y, weights, Len(y))

(***************************************************************************)
(* GetProx(y, weights), one step per loop iteration.                       *)
(*   gp.scale[j] is the scaling factor the loop used at index j of the     *)
(*   current column, gp.nrm[j] the suffix norm it divided by.              *)
(***************************************************************************)
YVals == {0, 3 * Unit, -(4 * Unit), 1}

WVals == {0, Unit \div 2, 4 * Unit}

\* weight columns: one value at the odd indices, one at the even ones
WCols == { [j \in 1..MaxJ |-> IF j % 2 = 1 THEN a ELSE b] : a, b \in WVals }

\* weight matrices: a first column, and one column for the lambdas after it
WMats == { [i \in 1..MaxNlam |-> IF i = 1 THEN c ELSE d] : c, d \in WCols }

Unset == [k \in 1..MaxJ |-> NaN]

gpIdle == [pc |-> "idle"]

hbIdle == [pc |-> "idle"]

faIdle == [pc |-> "idle"]

InitProx ==
    /\ \E y \in [1..MaxJ -> YVals], weights \in WMats :
          gp = [pc |-> "for_i", y |-> y, weights |-> weights,
                beta |-> [i \in 1..MaxNlam |-> Zeros(MaxJ)],
                temp_weights |-> Zeros(MaxJ), temp_beta |-> Zeros(MaxJ),
                i |-> 1, j |-> 0, scale |-> Unset, nrm |-> Unset]
    /\ hb = hbIdle
    /\ fa = faIdle

\* for(i ...): a column begins
GP_ColBegin ==
    /\ gp.pc = "for_i"
    /\ gp.i <= MaxNlam
    /\ gp' = [gp EXCEPT !.pc = "for_j",
                        !.temp_weights = gp.weights[gp.i],
                        !.temp_beta = gp.y,
                        !.j = MaxJ,
                        !.scale = Unset, !.nrm = Unset]
    /\ UNCHANGED <<hb, fa>>

\* for(j = p - 1; j >= 0; --j): one shrink of the suffix
GP_Shrink ==
    /\ gp.pc = "for_j"
    /\ gp.j >= 1
    /\ gp' = [gp EXCEPT !.temp_beta = ShrinkStep(gp.temp_beta, gp.temp_weights, gp.j),
                        !.scale[gp.j] = ScaleFactor(gp.temp_beta, gp.temp_weights, gp.j),
                        !.nrm[gp.j] = Norm(SubVec(gp.temp_beta, gp.j)),
                        !.j = gp.j - 1]
    /\ UNCHANGED <<hb, fa>>

\* beta.col(i) = temp_beta
GP_ColEnd ==
    /\ gp.pc = "for_j"
    /\ gp.j = 0
    /\ gp' = [gp EXCEPT !.pc = "for_i",
                        !.beta[gp.i] = gp.temp_beta,
                        !.i = gp.i + 1]
    /\ UNCHANGED <<hb, fa>>

GP_Return ==
    /\ gp.pc = "for_i"
    /\ gp.i > MaxNlam
    /\ gp' = [gp EXCEPT !.pc = "done"]
    /\ UNCHANGED <<hb, fa>>

NextProx == GP_ColBegin \/ GP_Shrink \/ GP_ColEnd \/ GP_Return

SpecProx == InitProx /\ [][NextProx]_vars

(***************************************************************************)
(* Claims about the proximal operator (GetProx, GetProxOne).               *)
(***************************************************************************)
AllPositive(w) == \A k \in 1..Len(w) : w[k] > 0

AllZero(v) == \A k \in 1..Len(v) : v[k] = 0

\* nested sparsity: a zero entry has only zero entries after it
Hierarchical(b) ==
    \A j \in 1..Len(b) : b[j] = 0 => \A k \in (j + 1)..Len(b) : b[k] = 0

\* the column GetProx has just stored, when it has just stored one
ColumnStored == gp.pc = "for_i" /\ gp.i > 1

StoredCol == gp.i - 1

\* C1, as stated: every output of GetProxOne and every column of GetProx
\* computed with weights that are all > 0 is nested-sparse: beta[j] = 0
\* implies beta[k] = 0 for every k > j, whatever the input y.
C1_HierarchyAnyInput ==
    ColumnStored /\ AllPositive(gp.weights[StoredCol]) =>
        /\ Hierarchical(gp.beta[StoredCol])
        /\ Hierarchical(GetProxOne(gp.y, gp.weights[StoredCol]))

\* C1, amended: with weights that are all > 0, whenever the loop takes the
\* scaling factor 0 at index j (the weight is at least the norm of the
\* current suffix), every entry beta[k] with k >= j of the output is 0; and
\* GetProxOne returns the column GetProx stores.
C1_ZeroedSuffixStaysZero ==
    ColumnStored /\ AllPositive(gp.weights[StoredCol]) =>
        /\ \A j \in 1..MaxJ :
              gp.scale[j] = 0 => \A k \in j..MaxJ : gp.beta[StoredCol][k] = 0
        /\ GetProxOne(gp.y, gp.weights[StoredCol]) = gp.beta[StoredCol]

\* a column with positive weights whose tail was zeroed while its head survives
C1_Witness ==
    /\ ColumnStored
    /\ AllPositive(gp.weights[StoredCol])
    /\ gp.scale[MaxJ] = 0
    /\ gp.y[MaxJ] # 0
    /\ gp.scale[1] # 0
    /\ gp.beta[StoredCol][1] # 0

\* C2: with a weight column that is all 0, GetProxOne returns y and GetProx
\* stores y, entry for entry, for every y (all-zero y and y with trailing
\* zeros included).
C2_ZeroWeightIdentity ==
    ColumnStored /\ AllZero(gp.weights[StoredCol]) =>
        /\ gp.beta[StoredCol] = gp.y
        /\ GetProxOne(gp.y, gp.weights[StoredCol]) = gp.y

\* an all-zero weight column applied to a y whose last entry is 0: the loop
\* divided 0 by 0 at the last index
C2_Witness ==
    /\ ColumnStored
    /\ AllZero(gp.weights[StoredCol])
    /\ gp.y[MaxJ] = 0
    /\ gp.y[1] # 0
    /\ gp.nrm[MaxJ] = 0
    /\ gp.beta[StoredCol] = gp.y

\* C8: with weights >= 0, at every index j at which the suffix norm is 0 the
\* scaling factor is 0 and the suffix stays all zero, and no NaN or Inf is
\* ever written into beta.
C8_ZeroNormNoNaN ==
    gp.pc \in {"for_i", "for_j", "done"} =>
        /\ \A j \in 1..MaxJ :
              gp.nrm[j] = 0 =>
                  /\ gp.scale[j] = 0
                  /\ \A k \in j..MaxJ : gp.temp_beta[k] = 0
        /\ AllFinite(gp.temp_beta)
        /\ \A i \in 1..MaxNlam : AllFinite(gp.beta[i])

\* the loop met a zero suffix norm with a zero weight (0 / 0) in a column
\* whose input is not all zero
C8_Witness ==
    /\ gp.pc = "for_j"
    /\ \E j \in 1..MaxJ : gp.nrm[j] = 0 /\ gp.temp_weights[j] = 0
    /\ ~AllZero(gp.y)
    /\ gp.j = 0

(***************************************************************************)
(* FitAdditive(y, weights, x_beta, x, beta, tol, p, J, n, nlam, max_iter). *)
(*   beta[j] is column j of the J x p matrix beta, x_beta[j] column j of   *)
(*   the n x p matrix x_beta, X[j] the n x J slice j of the cube, X[j][r]  *)
(*   its row r.  weights holds the J rows of each column that GetProxOne   *)
(*   reads.  max_iter is a double.                                         *)
(***************************************************************************)
\* p: number of predictor blocks
MaxP == 2
\* n: number of observations
MaxN == 2

RECURSIVE DotUpTo(_, _, _)
DotUpTo(a, b, k) ==
    IF k = 0 THEN 0 ELSE FAdd(DotUpTo(a, b, k - 1), FMul(a[k], b[k]))

\* the product of the row vector a and the column vector b
Dot(a, b) == DotUpTo(a, b, Len(a))

\* X.slice(j) * b
MatVec(Xj, b) == [r \in 1..Len(Xj) |-> Dot(Xj[r], b)]

\* trans(X.slice(j)) * u
TransMatVec(Xj, u) ==
    [k \in 1..MaxJ |-> Dot([r \in 1..Len(Xj) |-> Xj[r][k]], u)]

RECURSIVE RowSumUpTo(_, _, _)
RowSumUpTo(m, r, j) ==
    IF j = 0 THEN 0 ELSE FAdd(RowSumUpTo(m, r, j - 1), m[j][r])

\* sum(x_beta, 1): the sum of each row over the columns
RowSums(m) == [r \in 1..MaxN |-> RowSumUpTo(m, r, Len(m))]

\* vectorise(beta): the columns of beta, stacked
Vectorise(beta) ==
    [q \in 1..(MaxP * MaxJ) |-> beta[((q - 1) \div MaxJ) + 1][((q - 1) % MaxJ) + 1]]

\* the J x p matrix whose vectorisation is v
Reshape(v) == [j \in 1..MaxP |-> [k \in 1..MaxJ |-> v[(j - 1) * MaxJ + k]]]

\* weights.col(i) / n
ColOverN(w, nobs) == [k \in 1..Len(w) |-> FDiv(w[k], FromInt(nobs))]

\* a partial residual that leaves out the block's own contribution
PartialResidualNoOwn(y, x_beta, Xj, beta_j) ==
    [r \in 1..MaxN |-> FSub(y[r], RowSums(x_beta)[r])]

\* temp_y = y - sum(x_beta, 1) + X.slice(j) * beta.col(j)
PartialResidual(y, x_beta, Xj, beta_j) ==
    [r \in 1..MaxN |->
        FAdd(FSub(y[r], RowSums(x_beta)[r]), MatVec(Xj, beta_j)[r])]

\* temp_v = trans(X.slice(j)) * (temp_y / n)
BlockInput(Xj, temp_y, nobs) ==
    TransMatVec(Xj, [r \in 1..MaxN |-> FDiv(temp_y[r], FromInt(nobs))])

\* a convergence test the wrong way round
ConvergedTestGt(change, tol) == FGt(FAbs(change), tol)

\* fabs(change) < tol
ConvergedTest(change, tol) == FLt(FAbs(change), tol)

\* a loop test that allows one sweep more
LoopTestLe(counter, max_iter, converged) ==
    ~FGt(FromInt(counter), max_iter) /\ ~converged

\* counter < max_iter && !converged
LoopTest(counter, max_iter, converged) ==
    FLt(FromInt(counter), max_iter) /\ ~converged

\* counter == max_iter
CapTest(counter, max_iter) == FEq(FromInt(counter), max_iter)

\* the coefficients a lambda starts from: those the previous one left
LambdaStart(f) == [beta |-> f.beta, x_beta |-> f.x_beta]

\* the weight column of the last lambda, whatever i
TempWeightsLast(f) == ColOverN(f.weights[f.nlam], MaxN)

\* temp_weights = weights.col(i) / n
TempWeights(f) == ColOverN(f.weights[f.i], MaxN)

\* beta_ans.col(i) = vectorise(beta)
StoreColumn(beta_ans, i, beta) == [beta_ans EXCEPT ![i] = Vectorise(beta)]

\* the else branch of the convergence test: beta_ans is not assigned
MissColumn(beta_ans, i, beta) == beta_ans

\* change = norm(vectorise(beta)) - norm(vectorise(old_beta))
Change(beta, old_beta) == FSub(Norm(Vectorise(beta)), Norm(Vectorise(old_beta)))

FYVals == {3 * Unit, -(2 * Unit)}

\* responses: a first entry, and one value for the entries after it
FYs == { [r \in 1..MaxN |-> IF r = 1 THEN a ELSE -(2 * Unit)] : a \in FYVals }

XVals == {Unit}

\* designs: column k of slice j has its one non-zero entry x in row
\* (k + j * s) mod n; with s = 0 all slices are the same
Cubes ==
    { [j \in 1..MaxP |-> [r \in 1..MaxN |-> [k \in 1..MaxJ |->
          IF (k + j * s) % MaxN = r - 1 THEN x ELSE 0]]] : s \in {0, 1}, x \in XVals }

FWVals == {0, Unit, 4 * Unit}

FWCols == { [k \in 1..MaxJ |-> c] : c \in FWVals }

FWMats == { [i \in 1..MaxNlam |-> IF i = 1 THEN c ELSE d] : c, d \in FWCols }

Betas == { [j \in 1..MaxP |-> [k \in 1..MaxJ |-> IF k = 1 THEN b ELSE 0]] : b \in {0, Unit} }

Tols == {0, 1, Unit}

MaxIters == {0, Unit, Unit + (Unit \div 2)}

\* the n x p matrix whose column j is X_j * beta_j
Fitted(X, beta) == [j \in 1..MaxP |-> MatVec(X[j], beta[j])]

ZeroAns == [i \in 1..MaxNlam |-> Zeros(MaxP * MaxJ)]

\* the state of a call at entry
Call(nr, y, X, weights, beta, x_beta, tol, nlam, max_iter, prev, changed) ==
    [pc |-> "for_i", call |-> nr, y |-> y, X |-> X, weights |-> weights,
     beta0 |-> beta, x_beta0 |-> x_beta, tol |-> tol, nlam |-> nlam,
     max_iter |-> max_iter,
     beta |-> beta, x_beta |-> x_beta, beta_ans |-> ZeroAns,
     temp_weights |-> Zeros(MaxJ), old_beta |-> beta,
     i |-> 1, j |-> 1, counter |-> 0, converged |-> FALSE,
     \* what the call has done, lambda by lambda
     warnings |-> [i \in 1..MaxNlam |-> 0],
     sweeps |-> [i \in 1..MaxNlam |-> 0],
     status |-> [i \in 1..MaxNlam |-> "pending"],
     started |-> [i \in 1..MaxNlam |-> LambdaStart([beta |-> beta, x_beta |-> x_beta])],
     left |-> [i \in 1..MaxNlam |-> LambdaStart([beta |-> beta, x_beta |-> x_beta])],
     after_first |-> [i \in 1..MaxNlam |-> beta],
     \* the call before this one: its result, and the weight column changed since
     prev_ans |-> prev, changed |-> changed]

InitFit ==
    /\ gp = gpIdle
    /\ hb = hbIdle
    /\ \E y \in FYs, X \in Cubes, weights \in FWMats, beta \in Betas,
          consistent \in BOOLEAN, tol \in Tols, nlam \in 1..MaxNlam,
          max_iter \in MaxIters :
          fa = Call(1, y, X, weights, beta,
                    IF consistent THEN Fitted(X, beta)
                    ELSE [j \in 1..MaxP |-> Zeros(MaxN)],
                    tol, nlam, max_iter, ZeroAns, 0)

\* for(i ...): the next lambda begins
FA_LambdaBegin ==
    /\ fa.pc = "for_i"
    /\ fa.i <= fa.nlam
    /\ fa' = [fa EXCEPT !.pc = "while",
                        !.temp_weights = TempWeights(fa),
                        !.beta = LambdaStart(fa).beta,
                        !.x_beta = LambdaStart(fa).x_beta,
                        !.counter = 0,
                        !.converged = FALSE,
                        !.status[fa.i] = "sweeping",
                        !.started[fa.i] = LambdaStart(fa)]
    /\ UNCHANGED <<gp, hb>>

\* while(counter < max_iter && !converged): a sweep begins
FA_SweepBegin ==
    /\ fa.pc = "while"
    /\ LoopTest(fa.counter, fa.max_iter, fa.converged)
    /\ fa' = [fa EXCEPT !.pc = "for_j", !.old_beta = fa.beta, !.j = 1]
    /\ UNCHANGED <<gp, hb>>

\* for(j ...): block j is updated
FA_BlockUpdate ==
    /\ fa.pc = "for_j"
    /\ fa.j <= MaxP
    /\ \E temp_y \in {PartialResidual(fa.y, fa.x_beta, fa.X[fa.j], fa.beta[fa.j])} :
       \E temp_v \in {BlockInput(fa.X[fa.j], temp_y, MaxN)} :
       \E temp_beta_j \in {GetProxOne(temp_v, fa.temp_weights)} :
          fa' = [fa EXCEPT !.beta[fa.j] = temp_beta_j,
                           !.x_beta[fa.j] = MatVec(fa.X[fa.j], temp_beta_j),
                           !.j = fa.j + 1]
    /\ UNCHANGED <<gp, hb>>

\* if(fabs(change) < tol): the sweep converged
FA_Converged ==
    /\ fa.pc = "for_j"
    /\ fa.j > MaxP
    /\ ConvergedTest(Change(fa.beta, fa.old_beta), fa.tol)
    /\ fa' = [fa EXCEPT !.pc = "while",
                        !.beta_ans = StoreColumn(fa.beta_ans, fa.i, fa.beta),
                        !.converged = TRUE,
                        !.sweeps[fa.i] = fa.sweeps[fa.i] + 1,
                        !.after_first[fa.i] =
                            IF fa.sweeps[fa.i] = 0 THEN fa.beta
                            ELSE fa.after_first[fa.i]]
    /\ UNCHANGED <<gp, hb>>

\* else: counter = counter + 1, and the warning when counter == max_iter
FA_NotConverged ==
    /\ fa.pc = "for_j"
    /\ fa.j > MaxP
    /\ ~ConvergedTest(Change(fa.beta, fa.old_beta), fa.tol)
    /\ fa' = [fa EXCEPT !.pc = "while",
                        !.beta_ans = MissColumn(fa.beta_ans, fa.i, fa.beta),
                        !.counter = fa.counter + 1,
                        !.sweeps[fa.i] = fa.sweeps[fa.i] + 1,
                        !.after_first[fa.i] =
                            IF fa.sweeps[fa.i] = 0 THEN fa.beta
                            ELSE fa.after_first[fa.i],
                        !.warnings[fa.i] =
                            IF CapTest(fa.counter + 1, fa.max_iter)
                            THEN fa.warnings[fa.i] + 1 ELSE fa.warnings[fa.i]]
    /\ UNCHANGED <<gp, hb>>

\* the while loop ends: on to the next lambda
FA_LambdaEnd ==
    /\ fa.pc = "while"
    /\ ~LoopTest(fa.counter, fa.max_iter, fa.converged)
    /\ fa' = [fa EXCEPT !.pc = "for_i",
                        !.i = fa.i + 1,
                        !.status[fa.i] = IF fa.converged THEN "converged" ELSE "cap",
                        !.left[fa.i] = [beta |-> fa.beta, x_beta |-> fa.x_beta]]
    /\ UNCHANGED <<gp, hb>>

\* return beta_ans
FA_Return ==
    /\ fa.pc = "for_i"
    /\ fa.i > fa.nlam
    /\ fa' = [fa EXCEPT !.pc = "done"]
    /\ UNCHANGED <<gp, hb>>

\* The caller fits again, warm-started from the result of a converged
\* single-lambda call: beta is the returned column, x_beta its fitted values.
FA_CallAgainWarm ==
    /\ fa.pc = "done"
    /\ fa.call = 1
    /\ fa.nlam = 1
    /\ fa.status[1] = "converged"
    /\ \E beta \in {Reshape(fa.beta_ans[1])} :
          fa' = Call(2, fa.y, fa.X, fa.weights, beta, Fitted(fa.X, beta),
                     fa.tol, fa.nlam, fa.max_iter, fa.beta_ans, 0)
    /\ UNCHANGED <<gp, hb>>

\* The caller fits again with the same arguments but for weight column c.
FA_CallAgainWeights ==
    /\ fa.pc = "done"
    /\ fa.call = 1
    /\ \E c \in 1..fa.nlam, w \in FWCols :
          /\ w # fa.weights[c]
          /\ fa' = Call(3, fa.y, fa.X, [fa.weights EXCEPT ![c] = w],
                        fa.beta0, fa.x_beta0, fa.tol, fa.nlam, fa.max_iter,
                        fa.beta_ans, c)
    /\ UNCHANGED <<gp, hb>>

\* the steps of one call
NextCall ==
    \/ FA_LambdaBegin
    \/ FA_SweepBegin
    \/ FA_BlockUpdate
    \/ FA_Converged
    \/ FA_NotConverged
    \/ FA_LambdaEnd
    \/ FA_Return

\* one call of FitAdditive
SpecCall == InitFit /\ [][NextCall]_vars

\* a call, and the calls the caller makes after it
NextFit ==
    \/ NextCall
    \/ FA_CallAgainWarm
    \/ FA_CallAgainWeights

SpecFit == InitFit /\ [][NextFit]_vars

(***************************************************************************)
(* solveHierBasis(design_mat, y, ak, weights, n, lam_min_ratio, nlam,      *)
(* max_lambda).  A matrix is the sequence of its columns, but for R_mat,   *)
(* which is R_mat[row][column].                                            *)
(***************************************************************************)
\* the NA of R, as R_IsNA sees it
NA == 7000000

RECURSIVE Pow(_, _)
Pow(b, e) == IF e = 0 THEN 1 ELSE b * Pow(b, e - 1)

\* Unit^Unit * 10^l <= m^Unit, for a logarithm l / Unit of either sign
AtLeastPow10(m, l) ==
    IF l >= 0 THEN Pow(Unit, Unit) * Pow(10, l) <= Pow(m, Unit)
    ELSE Pow(Unit, Unit) <= Pow(m, Unit) * Pow(10, -l)

\* 10^(l / Unit) <= m / Unit, the other way round
AtMostPow10(m, l) ==
    IF l >= 0 THEN Pow(m, Unit) <= Pow(Unit, Unit) * Pow(10, l)
    ELSE Pow(m, Unit) * Pow(10, -l) <= Pow(Unit, Unit)

RECURSIVE LogUp(_, _)
LogUp(x, l) == IF AtLeastPow10(x, l + 1) THEN LogUp(x, l + 1) ELSE l

RECURSIVE LogDown(_, _)
LogDown(x, l) == IF AtLeastPow10(x, l) THEN l ELSE LogDown(x, l - 1)

\* log10(x): the largest l with 10^(l / Unit) <= x / Unit
FLog10(x) ==
    IF x = NaN \/ x = NInf THEN NaN
    ELSE IF x = PInf THEN PInf
    ELSE IF x < 0 THEN NaN
    ELSE IF x = 0 THEN NInf
    ELSE IF AtLeastPow10(x, 0) THEN LogUp(x, 0) ELSE LogDown(x, -1)

RECURSIVE ExpUp(_, _)
ExpUp(l, m) == IF AtMostPow10(m + 1, l) THEN ExpUp(l, m + 1) ELSE m

\* exp10(l): the largest m with m / Unit <= 10^(l / Unit)
FExp10(l) ==
    IF l = NaN THEN NaN
    ELSE IF l = PInf THEN PInf
    ELSE IF l = NInf THEN 0
    ELSE ExpUp(l, 0)

\* sqrt(a)
FSqrt(a) ==
    IF a = NaN \/ a = NInf THEN NaN
    ELSE IF a = PInf THEN PInf
    ELSE IF a < 0 THEN NaN
    ELSE ISqrt(a * Unit)

\* a linspace that gives its start when asked for one point
LinspaceStart(start, end, num) ==
    [i \in 1..num |->
        IF i = 1 THEN start
        ELSE IF i = num THEN end
        ELSE FAdd(start, FMul(FromInt(i - 1),
                              FDiv(FSub(end, start), FromInt(num - 1))))]

\* linspace<vec>(start, end, num): start + i * delta for the first num - 1
\* points and end for the last; the single point of num = 1 is end
Linspace(start, end, num) ==
    IF num >= 2
    THEN [i \in 1..num |->
             IF i = num THEN end
             ELSE FAdd(start, FMul(FromInt(i - 1),
                                   FDiv(FSub(end, start), FromInt(num - 1))))]
    ELSE [i \in 1..num |-> end]

RECURSIVE ArmaMaxUpTo(_, _)
ArmaMaxUpTo(v, k) ==
    IF k = 0 THEN NInf
    ELSE IF FGt(v[k], ArmaMaxUpTo(v, k - 1)) THEN v[k] ELSE ArmaMaxUpTo(v, k - 1)

\* max(v): the scan of arma::max, which a NaN never wins
ArmaMax(v) == ArmaMaxUpTo(v, Len(v))

\* the coefficients of column k of A on the columns of Q found so far
QRCoef(A, Q, k) == [m \in 1..Len(Q) |-> Dot(Q[m], A[k])]

RECURSIVE Project(_, _, _, _)
Project(Q, coef, r, m) ==
    IF m = 0 THEN 0 ELSE FAdd(Project(Q, coef, r, m - 1), FMul(coef[m], Q[m][r]))

\* column k of A less its part in the span of the columns of Q
QRResidual(A, Q, coef, k) ==
    [r \in 1..Len(A[k]) |-> FSub(A[k][r], Project(Q, coef, r, Len(Q)))]

QRColumnOfR(R, coef, nrm, k) ==
    [m \in 1..Len(R) |->
        [c \in 1..Len(R) |->
            IF c # k THEN R[m][c]
            ELSE IF m < k THEN coef[m] ELSE IF m = k THEN nrm ELSE 0]]

RECURSIVE QRLoop(_, _, _, _)
QRNext(A, Q, R, coef, u, nrm, k) ==
    QRLoop(A, Append(Q, [r \in 1..Len(u) |-> FDiv(u[r], nrm)]),
           QRColumnOfR(R, coef, nrm, k), k + 1)

QRWithResidual(A, Q, R, coef, u, k) == QRNext(A, Q, R, coef, u, Norm(u), k)

QRWithCoef(A, Q, R, coef, k) ==
    QRWithResidual(A, Q, R, coef, QRResidual(A, Q, coef, k), k)

QRLoop(A, Q, R, k) ==
    IF k > Len(A) THEN [Q |-> Q, R |-> R]
    ELSE QRWithCoef(A, Q, R, QRCoef(A, Q, k), k)

\* arma::qr_econ(x_mat, R_mat, design_mat): the columns of the design made
\* orthonormal one after the other, and the upper triangular R
QrEcon(A) ==
    QRLoop(A, <<>>, [m \in 1..Len(A) |-> [c \in 1..Len(A) |-> 0]], 1)

\* x_mat = x_mat * sqrt(n)
ScaleQ(Q, nobs) ==
    [k \in 1..Len(Q) |-> [r \in 1..Len(Q[k]) |-> FMul(Q[k][r], FSqrt(FromInt(nobs)))]]

\* R_mat = R_mat / sqrt(n)
ScaleR(R, nobs) ==
    [m \in 1..Len(R) |-> [c \in 1..Len(R) |-> FDiv(R[m][c], FSqrt(FromInt(nobs)))]]

\* v_temp = x_mat.t() * (y / n)
VTemp(x_mat, y, nobs) ==
    [k \in 1..Len(x_mat) |->
        Dot(x_mat[k], [r \in 1..Len(y) |-> FDiv(y[r], FromInt(nobs))])]

\* max_lambda = max(abs(v_temp) / ak)
MaxLambda(v_temp, ak) ==
    ArmaMax([k \in 1..Len(v_temp) |-> FDiv(FAbs(v_temp[k]), ak[k])])

\* lambdas = exp10(linspace(log10(max_lambda), log10(max_lambda * lam_min_ratio), nlam))
LambdaPath(max_lambda, lam_min_ratio, nlam) ==
    [i \in 1..nlam |->
        FExp10(Linspace(FLog10(max_lambda),
                        FLog10(FMul(max_lambda, lam_min_ratio)), nlam)[i])]

\* weights.each_row() %= lambdas.t()
ScaleWeights(weights, lambdas) ==
    [i \in 1..Len(lambdas) |->
        [k \in 1..Len(weights[i]) |-> FMul(weights[i][k], lambdas[i])]]

RECURSIVE BackSum(_, _, _, _)
BackSum(R, x, k, m) ==
    IF m = k THEN 0 ELSE FAdd(BackSum(R, x, k, m - 1), FMul(R[k][m], x[m]))

RECURSIVE BackSubst(_, _, _, _)
BackSubst(R, b, x, k) ==
    IF k = 0 THEN x
    ELSE BackSubst(R, b,
                   [x EXCEPT ![k] = FDiv(FSub(b[k], BackSum(R, x, k, Len(b))), R[k][k])],
                   k - 1)

\* solve(trimatu(R_mat), b): back substitution, last row first
SolveUpper(R, b) == BackSubst(R, b, Zeros(Len(b)), Len(b))

\* n of solveHierBasis: one observation more than basis functions
HbRows == MaxJ + 1

\* designs: d on the diagonal and c below it
Designs ==
    { [k \in 1..MaxJ |-> [r \in 1..HbRows |->
          IF r = k THEN d ELSE IF r = k + 1 THEN c ELSE 0]] :
      d \in {Unit, 2 * Unit}, c \in {0, Unit} }

HbYs ==
    { [r \in 1..HbRows |-> IF r = 1 THEN a ELSE IF r = 2 THEN b ELSE 0] :
      a, b \in {0, 2 * Unit, -(8 * Unit)} }

\* ak: all 1, or 1, 2, 3, ..
Aks == { [k \in 1..MaxJ |-> Unit], [k \in 1..MaxJ |-> k * Unit] }

Ratios == {Unit \div 2, 1}

InitSolve ==
    /\ gp = gpIdle
    /\ fa = faIdle
    /\ \E design_mat \in Designs, y \in HbYs, ak \in Aks,
          lam_min_ratio \in Ratios, nlam \in 1..MaxNlam,
          max_lambda \in {NA, 2 * Unit} :
          hb = [pc |-> "qr", design_mat |-> design_mat, y |-> y, ak |-> ak,
                weights |-> [i \in 1..nlam |-> ak], n |-> HbRows,
                lam_min_ratio |-> lam_min_ratio, nlam |-> nlam,
                max_lambda |-> max_lambda, was_na |-> max_lambda = NA,
                x_mat |-> <<>>, R_mat |-> <<>>, v_temp |-> <<>>,
                lambdas |-> <<>>, beta_hat |-> <<>>, beta_hat2 |-> <<>>]

\* qr_econ, the rescaling by sqrt(n), and v_temp
HB_Orthogonalize ==
    /\ hb.pc = "qr"
    /\ \E qr \in {QrEcon(hb.design_mat)} :
       \E x_mat \in {ScaleQ(qr.Q, hb.n)} :
          hb' = [hb EXCEPT !.pc = "max_lambda",
                           !.x_mat = x_mat,
                           !.R_mat = ScaleR(qr.R, hb.n),
                           !.v_temp = VTemp(x_mat, hb.y, hb.n)]
    /\ UNCHANGED <<gp, fa>>

\* if(R_IsNA(max_lambda)) max_lambda = max(abs(v_temp) / ak)
HB_MaxLambda ==
    /\ hb.pc = "max_lambda"
    /\ hb.max_lambda = NA
    /\ hb' = [hb EXCEPT !.pc = "path", !.max_lambda = MaxLambda(hb.v_temp, hb.ak)]
    /\ UNCHANGED <<gp, fa>>

\* max_lambda was given
HB_GivenLambda ==
    /\ hb.pc = "max_lambda"
    /\ hb.max_lambda # NA
    /\ hb' = [hb EXCEPT !.pc = "path"]
    /\ UNCHANGED <<gp, fa>>

\* the lambda sequence, and the weights scaled by it
HB_Path ==
    /\ hb.pc = "path"
    /\ \E lambdas \in {LambdaPath(hb.max_lambda, hb.lam_min_ratio, hb.nlam)} :
          hb' = [hb EXCEPT !.pc = "prox",
                           !.lambdas = lambdas,
                           !.weights = ScaleWeights(hb.weights, lambdas)]
    /\ UNCHANGED <<gp, fa>>

\* beta_hat = GetProx(v_temp, weights)
HB_Prox ==
    /\ hb.pc = "prox"
    /\ hb' = [hb EXCEPT !.pc = "solve",
                        !.beta_hat = [i \in 1..hb.nlam |->
                                         GetProxOne(hb.v_temp, hb.weights[i])]]
    /\ UNCHANGED <<gp, fa>>

\* beta_hat2 = solve(trimatu(R_mat), mat(beta_hat)), and the return
HB_Solve ==
    /\ hb.pc = "solve"
    /\ hb' = [hb EXCEPT !.pc = "done",
                        !.beta_hat2 = [i \in 1..hb.nlam |->
                                          SolveUpper(hb.R_mat, hb.beta_hat[i])]]
    /\ UNCHANGED <<gp, fa>>

NextSolve ==
    \/ HB_Orthogonalize
    \/ HB_MaxLambda
    \/ HB_GivenLambda
    \/ HB_Path
    \/ HB_Prox
    \/ HB_Solve

SpecSolve == InitSolve /\ [][NextSolve]_vars

(***************************************************************************)
(* Claims about solveHierBasis.                                            *)
(***************************************************************************)
\* solveHierBasis has returned from a call with max_lambda = NA and ak > 0
HbNaDone ==
    /\ hb.pc = "done"
    /\ hb.was_na
    /\ \A k \in 1..MaxJ : hb.ak[k] > 0

\* max_lambda is the largest |v_temp[j]| / ak[j]
HbMaxIsMax ==
    /\ \A k \in 1..MaxJ : hb.max_lambda >= FDiv(FAbs(hb.v_temp[k]), hb.ak[k])
    /\ \E k \in 1..MaxJ : hb.max_lambda = FDiv(FAbs(hb.v_temp[k]), hb.ak[k])

\* the first weight column covers |v_temp| entry by entry
HbFirstWeightsCover ==
    \A k \in 1..MaxJ : hb.weights[1][k] >= FAbs(hb.v_temp[k])

\* C5, as stated: with max_lambda = NA and ak > 0, for every nlam >= 1 the
\* first value of the lambda path is max_j |v[j]| / ak[j] and the first
\* column of the coefficients returned is all zero.
C5_NullSolutionAtHead ==
    HbNaDone =>
        /\ HbMaxIsMax
        /\ hb.lambdas[1] = hb.max_lambda
        /\ AllZero(hb.beta_hat2[1])

\* C5, amended: with max_lambda = NA and ak > 0, max_lambda is set to
\* max_j |v[j]| / ak[j].  For nlam >= 2 and both ends of the path positive,
\* the first value of the path is exp10(log10(max_lambda)), and the first
\* column of the coefficients returned is all zero whenever the first weight
\* column computed from it, ak[j] * lambdas[0], is at least |v[j]| for every
\* j.  For nlam = 1 the only value of the path is
\* exp10(log10(max_lambda * lam_min_ratio)).
C5_NullSolutionWhenCovered ==
    HbNaDone =>
        /\ HbMaxIsMax
        /\ hb.nlam >= 2 /\ FMul(hb.max_lambda, hb.lam_min_ratio) > 0 =>
              /\ hb.lambdas[1] = FExp10(FLog10(hb.max_lambda))
              /\ HbFirstWeightsCover => AllZero(hb.beta_hat2[1])
        /\ hb.nlam = 1 =>
              hb.lambdas[1] = FExp10(FLog10(FMul(hb.max_lambda, hb.lam_min_ratio)))

\* a path of two values or more starting at max_lambda exactly, the null
\* solution in its first column and a non-zero solution after it
C5_Witness ==
    /\ HbNaDone
    /\ hb.nlam >= 2
    /\ hb.max_lambda > 0
    /\ FMul(hb.max_lambda, hb.lam_min_ratio) > 0
    /\ hb.lambdas[1] = hb.max_lambda
    /\ HbFirstWeightsCover
    /\ AllZero(hb.beta_hat2[1])
    /\ ~AllZero(hb.beta_hat2[2])

(***************************************************************************)
(* Claims about FitAdditive.                                               *)
(***************************************************************************)
Lambdas == 1..fa.nlam

\* lambda i's while loop has ended
Ended(i) == fa.status[i] \in {"converged", "cap"}

\* C3: a lambda whose loop ends at the iteration cap without a
\* converged sweep has the vectorised beta of its last sweep in its column
\* of the result.
C3_BestEffortStored ==
    \A i \in Lambdas :
        fa.status[i] = "cap" /\ fa.sweeps[i] > 0 =>
            fa.beta_ans[i] = Vectorise(fa.left[i].beta)

\* C4, as stated: column i of the result depends on weights column i only:
\* a second call that differs only in weights column c returns the same
\* column i for every i # c.
C4_ColumnsIndependent ==
    fa.pc = "done" /\ fa.call = 3 =>
        \A i \in Lambdas : i # fa.changed => fa.beta_ans[i] = fa.prev_ans[i]

\* C4, amended: lambda 0 starts from the beta and x_beta passed to the call
\* and every later lambda from the beta and x_beta the lambda before it
\* left, so column i depends on the weights columns 0..i: a second call
\* that differs only in weights column c returns the same column i for
\* every i < c.
C4_ColumnsDependOnEarlier ==
    /\ fa.status[1] # "pending" =>
          fa.started[1] = [beta |-> fa.beta0, x_beta |-> fa.x_beta0]
    /\ \A i \in Lambdas :
          i > 1 /\ fa.status[i] # "pending" => fa.started[i] = fa.left[i - 1]
    /\ fa.pc = "done" /\ fa.call = 3 =>
          \A i \in Lambdas : i < fa.changed => fa.beta_ans[i] = fa.prev_ans[i]

\* the second call changed the last weight column: the first column came
\* out the same, the changed one did not
C4_Witness ==
    /\ fa.pc = "done"
    /\ fa.call = 3
    /\ fa.changed = fa.nlam
    /\ fa.nlam > 1
    /\ fa.beta_ans[1] = fa.prev_ans[1]
    /\ fa.beta_ans[1] # Zeros(MaxP * MaxJ)
    /\ fa.beta_ans[fa.nlam] # fa.prev_ans[fa.nlam]

\* C6, as stated: a call warm-started from the converged result of a
\* single-lambda call performs exactly one sweep and returns converged.
C6_WarmStartOneSweep ==
    fa.pc = "done" /\ fa.call = 2 =>
        fa.sweeps[1] = 1 /\ fa.status[1] = "converged"

\* C6, amended: when the first sweep of the warm-started call returns the
\* coefficients it started from (beta* is a fixed point of the sweep), the
\* call performs exactly that one sweep and returns beta* as converged.
C6_FixedPointOneSweep ==
    fa.pc = "done" /\ fa.call = 2 /\ fa.after_first[1] = fa.beta0 =>
        /\ fa.sweeps[1] = 1
        /\ fa.status[1] = "converged"
        /\ fa.beta_ans[1] = Vectorise(fa.beta0)

\* a warm-started call whose first sweep left a non-zero beta* as it was
C6_Witness ==
    /\ fa.pc = "done"
    /\ fa.call = 2
    /\ fa.after_first[1] = fa.beta0
    /\ Vectorise(fa.beta0) # Zeros(MaxP * MaxJ)
    /\ fa.sweeps[1] = 1

\* C7: every lambda whose loop ends without a converged sweep has raised
\* the warning exactly once, whatever max_iter is (0 and non-integer values
\* included), and the next lambda starts from the beta and x_beta it left.
C7_WarnedOnce ==
    \A i \in Lambdas :
        /\ fa.status[i] = "cap" => fa.warnings[i] = 1
        /\ fa.status[i] = "cap" /\ i < fa.nlam /\ fa.status[i + 1] # "pending" =>
              fa.started[i + 1] = fa.left[i]
\* C9, as stated: for every finite max_iter a lambda performs at most
\* max_iter sweeps and ends either Converged, with the vectorised beta in its
\* column, or IterationCapReached, with max_iter sweeps done.
C9_AtMostMaxIterSweeps ==
    \A i \in Lambdas :
        /\ FromInt(fa.sweeps[i]) <= fa.max_iter
        /\ fa.status[i] = "converged" =>
              fa.beta_ans[i] = Vectorise(fa.left[i].beta)
        /\ fa.status[i] = "cap" => FromInt(fa.sweeps[i]) = fa.max_iter

\* the per-lambda state machine, in every state
C9_StateMachine ==
    /\ \A i \in Lambdas :
          \* sweep number s is only begun while s - 1 < max_iter
          /\ fa.sweeps[i] > 0 => FromInt(fa.sweeps[i] - 1) < fa.max_iter
          /\ fa.status[i] = "pending" => fa.sweeps[i] = 0
          /\ fa.status[i] = "converged" =>
                /\ fa.sweeps[i] >= 1
                /\ fa.beta_ans[i] = Vectorise(fa.left[i].beta)
          /\ fa.status[i] = "cap" => FromInt(fa.sweeps[i]) >= fa.max_iter
    \* the sweep that set converged had |change| < tol and was stored
    /\ fa.pc = "while" /\ fa.converged =>
          /\ ConvergedTest(FSub(Norm(Vectorise(fa.beta)), Norm(Vectorise(fa.old_beta))),
                           fa.tol)
          /\ fa.beta_ans[fa.i] = Vectorise(fa.beta)
    \* the call returns once every lambda has ended, and is always at a place
    \* of the loops from which one of the steps is taken
    /\ fa.pc = "done" => \A i \in Lambdas : Ended(i)
    /\ fa.pc \in {"for_i", "while", "for_j", "done"}
    /\ fa.i \in 1..(fa.nlam + 1)
    /\ fa.j \in 1..(MaxP + 1)

\* a lambda that has ended is not swept again by the same call
C9_NoSweepAfterEnd ==
    \A i \in Lambdas :
        Ended(i) /\ fa'.call = fa.call =>
            fa'.sweeps[i] = fa.sweeps[i] /\ fa'.status[i] = fa.status[i]

\* C9, amended: for every finite max_iter a lambda starts Sweeping, performs
\* at most ceil(max_iter) sweeps (none when max_iter <= 0; one more than
\* max_iter rounded down when max_iter is not an integer), and ends in one
\* of two states: Converged (its last sweep had |change| < tol and the
\* vectorised beta is in its column) or IterationCapReached (the number of
\* sweeps done is at least max_iter and none converged).  An ended lambda is
\* not swept again, and the call returns after all nlam lambdas.
C9_PerLambdaStateMachine == []C9_StateMachine /\ [][C9_NoSweepAfterEnd]_vars

\* a call with a non-integer max_iter that returned with one lambda at the
\* cap after two sweeps and another converged
C9_Witness ==
    /\ fa.pc = "done"
    /\ fa.max_iter = Unit + (Unit \div 2)
    /\ \E i \in Lambdas : fa.status[i] = "cap" /\ fa.sweeps[i] = 2
    /\ \E i \in Lambdas : fa.status[i] = "converged"

\* the partial residual of block j, from the columns of x_beta as they stand
C10_Residual(f, j) ==
    [r \in 1..MaxN |->
        FAdd(FSub(f.y[r], RowSumUpTo(f.x_beta, r, MaxP)), Dot(f.X[j][r], f.beta[j]))]

\* X_j^T * (residual / n)
C10_Input(f, j, res) ==
    [k \in 1..MaxJ |->
        Dot([r \in 1..MaxN |-> f.X[j][r][k]],
            [r \in 1..MaxN |-> FDiv(res[r], FromInt(MaxN))])]

\* what the update of block j must leave in beta column j
C10_Expected(f, j) ==
    ProxLoop(C10_Input(f, j, C10_Residual(f, j)), f.temp_weights, MaxJ)

\* one step of a sweep updates block fa.j, and nothing but block fa.j
C10_BlockStep ==
    /\ fa.pc = "while" /\ fa'.pc = "for_j" => fa'.j = 1
    /\ fa.pc = "for_j" /\ fa'.pc = "for_j" =>
          /\ fa'.j = fa.j + 1
          /\ fa'.beta[fa.j] = C10_Expected(fa, fa.j)
          /\ fa'.x_beta[fa.j] = MatVec(fa.X[fa.j], fa'.beta[fa.j])
          /\ \A k \in 1..MaxP :
                k # fa.j => fa'.beta[k] = fa.beta[k] /\ fa'.x_beta[k] = fa.x_beta[k]

\* after a complete sweep every column of x_beta is X_j * beta_j
C10_SweepDone ==
    fa.pc = "for_j" /\ fa.j > MaxP =>
        \A k \in 1..MaxP : fa.x_beta[k] = MatVec(fa.X[k], fa.beta[k])

\* C10: a sweep updates the blocks in the order 0, 1, .., p-1; the partial
\* residual of block j is y minus the sum of the columns of x_beta as they
\* stand (earlier blocks already updated in this sweep) plus X_j * beta_j;
\* the step sets beta column j to the prox result and x_beta column j to
\* X_j * beta_j and changes no other block; so after every complete sweep
\* x_beta column j = X_j * beta column j for all j.
C10_GaussSeidel == []C10_SweepDone /\ [][C10_BlockStep]_vars

\* in a second sweep, block 0 has just been updated to a new value while
\* the other blocks still hold what the sweep before left
C10_Witness ==
    /\ fa.pc = "for_j"
    /\ fa.j = 2
    /\ fa.counter >= 1
    /\ fa.beta[1] # fa.old_beta[1]
    /\ fa.beta[2] = fa.old_beta[2]
    /\ fa.beta[2] # Zeros(MaxJ)

====
